---- MODULE Spec2Model ----
(***************************************************************************)
(* The transaction pipeline of squads-scripting: prepareTransaction        *)
(* (blockhash, simulation, fee estimate), signTransaction, sendTransaction *)
(* and the confirmSignature poller, for one signAndSendTransaction call;  *)
(* a second concurrent confirmSignature call, the conversion between the  *)
(* legacy and the modern instruction form, and the two calls in sequence  *)
(* of proposePaymentTransaction.                                           *)
(* Times are milliseconds since confirmSignature was called.               *)
(***************************************************************************)
EXTENDS Integers, Sequences, FiniteSets, TLC

VARIABLES
    pc,            \* position of the signAndSendTransaction call
    instructions,  \* the business instructions passed by the caller
    signersOk,     \* TRUE iff the signers passed fill every signer slot
    issued,        \* number of requests issued, per RPC method
    simState,      \* getComputeUnits: "idle", "pending", "returned", "threw"
    simErr,        \* TRUE iff the simulation answered with a non-null err
    computeUnits,  \* value returned by getComputeUnits (0 before it returns)
    feeState,      \* getPriorityFeeEstimate: "idle", "pending", "returned"
    priorityFee2,  \* twice the value returned by getPriorityFeeEstimate
    envelope,      \* instructions of the compiled transaction (<<>> before)
    signed,        \* TRUE once signTransaction has returned
    result,        \* settlement of the signAndSendTransaction promise
    now,           \* ms elapsed since confirmSignature was called
    retryCount,    \* confirmSignature.retryCount
    isResolved,    \* confirmSignature.isResolved
    timeoutTimer,  \* timeoutId: "unset", "pending", "fired", "cleared"
    retryTimers,   \* due times of the pending setTimeout(checkConfirmation)
    inflight,      \* issue times of the getTransaction requests not answered
    calls,         \* invocations of resolve / reject of the poller's promise
    hist,          \* observations of the run (what the polls answered, ...)
    answered,      \* the answers the Estimator's requests got, when kept
    interop,       \* a legacy instruction and its conversions
    peer,          \* the per-call state of a second confirmSignature call
    propose        \* position of proposePaymentTransaction, when it runs

vars == <<pc, instructions, signersOk, issued, simState, simErr, computeUnits,
          feeState, priorityFee2, envelope, signed, result, now, retryCount,
          isResolved, timeoutTimer, retryTimers, inflight, calls, hist,
          answered, interop, peer, propose>>

(* ---------------------------------------------------------------------- *)
(* Bounds of the model                                                     *)
(* ---------------------------------------------------------------------- *)
MaxInstr == 2
MaxLogs == 2
MaxSamples == 3
MaxTime == 9500
MaxKeys == 2
Step == 500

(* ---------------------------------------------------------------------- *)
(* Program constants                                                       *)
(* ---------------------------------------------------------------------- *)
MAX_RETRIES == 7
RETRY_INTERVAL == 1000
TIMEOUT_DURATION == 8000
DEFAULT_COMPUTE_UNITS == 1400000
DEFAULT_PRIORITY_FEE == 50000

Range(s) == {s[i] : i \in 1..Len(s)}
Min(a, b) == IF a <= b THEN a ELSE b
Max(a, b) == IF a >= b THEN a ELSE b

signature == "sig"

(* ---------------------------------------------------------------------- *)
(* Resource Estimator: getComputeUnits                                     *)
(* ---------------------------------------------------------------------- *)
\* A log line is the set of the substrings (among those the code or its
\* documentation looks for) that the line contains.
SysErrLine == "Program 11111111111111111111111111111111 failed: custom program error: 0x1"
LogLines ==
    { {},
      {"insufficient funds"},
      {"insufficient funds", "Error: insufficient funds"},
      {"InvalidLockupAmount"},
      {"0x1771"},
      {"0x178c"},
      {SysErrLine},
      {"insufficient lamports"},
      {"Error Code: AlreadyApproved"} }

includes(log, pattern) == pattern \in log

LogLists == UNION {[1..n -> LogLines] : n \in 0..MaxLogs}

NoErr == "null"
SimErrs == {NoErr, "InsufficientFundsForRent", "InstructionError"}

\* unitsConsumed as the RPC reports it; 0 also stands for an absent field
\* (Number(undefined) is NaN, and NaN || d is d as 0 || d is).
UnitsValues == {0, 10, 50}

\* hasLogs is FALSE when the logs field of the answer is null.
SimResults ==
    [err : SimErrs, hasLogs : {TRUE}, logs : LogLists,
     unitsConsumed : UnitsValues]
    \cup [err : SimErrs, hasLogs : {FALSE}, logs : {<<>>},
          unitsConsumed : UnitsValues]

MsgNeedSol == "You need more SOL to pay for transaction fees"
MsgUsdc == "Insufficient USDC balance for this transaction"
MsgLockup == "Invalid staked amount: Should be > 1"
MsgSlippage == "Maximum slippage reached"
MsgSimulation == "Transaction simulation error"

\* Mutant: the insufficient-lamports patterns are not looked for.
LineError_noLamports(log) ==
    IF includes(log, "InvalidLockupAmount") THEN MsgLockup
    ELSE IF includes(log, "0x1771") \/ includes(log, "0x178c") THEN MsgSlippage
    ELSE IF includes(log, "insufficient funds") THEN MsgUsdc
    ELSE IF includes(log, "Error: insufficient funds") THEN MsgUsdc
    ELSE ""

\* The error one log line raises in the for loop, "" when it raises none.
LineError(log) ==
    IF includes(log, "InvalidLockupAmount") THEN MsgLockup
    ELSE IF includes(log, "0x1771") \/ includes(log, "0x178c") THEN MsgSlippage
    ELSE IF includes(log, "insufficient funds") THEN MsgUsdc
    ELSE IF includes(log, "Error: insufficient funds") THEN MsgUsdc
    ELSE IF includes(log, SysErrLine) \/ includes(log, "insufficient lamports")
         THEN MsgNeedSol
    ELSE ""

RECURSIVE LoopError(_, _)
LoopError(logs, i) ==
    IF i > Len(logs) THEN MsgSimulation
    ELSE IF LineError(logs[i]) # "" THEN LineError(logs[i])
    ELSE LoopError(logs, i + 1)

\* lastLogs: the slice of the logs that getComputeUnits prints on the
\* console before it looks for a pattern (it is printed, nothing else).
LogExcerpt == 10
lastLogs(logs) == SubSeq(logs, Max(Len(logs) - LogExcerpt, 0) + 1, Len(logs))

\* getComputeUnits on a simulation answer: [threw |-> TRUE, message |-> m]
\* or [threw |-> FALSE, units |-> n].
getComputeUnits(sim) ==
    IF sim.err # NoErr /\ sim.hasLogs
    THEN [threw |-> TRUE, units |-> 0, message |->
            IF sim.err = "InsufficientFundsForRent" THEN MsgNeedSol
            ELSE IF Len(sim.logs) = 0 THEN MsgNeedSol
            ELSE IF \E i \in 1..Len(sim.logs) :
                       includes(sim.logs[i], "insufficient funds")
                       \/ includes(sim.logs[i], "Error: insufficient funds")
                 THEN MsgUsdc
            ELSE LoopError(sim.logs, 1)]
    ELSE [threw |-> FALSE, message |-> "", units |->
            IF sim.unitsConsumed # 0 THEN sim.unitsConsumed
            ELSE DEFAULT_COMPUTE_UNITS]

(* ---------------------------------------------------------------------- *)
(* Resource Estimator: getPriorityFeeEstimate                              *)
(* ---------------------------------------------------------------------- *)
NullFee == -1
FeeValues == {0, 60001, 700000}
FeeSamples == UNION {[1..n -> FeeValues \cup {NullFee}] : n \in 0..MaxSamples}

\* What the fetch of getRecentPrioritizationFees gives: the fetch or the
\* JSON parsing throws, the body has no result array, or a list of samples.
FeeResponses ==
    {[kind |-> "throws", samples |-> <<>>],
     [kind |-> "malformed", samples |-> <<>>]}
    \cup {[kind |-> "result", samples |-> s] : s \in FeeSamples}

\* data.result.filter(fee not null).map(fee)
RECURSIVE FilterFees(_)
FilterFees(s) ==
    IF s = <<>> THEN <<>>
    ELSE IF Head(s) # NullFee THEN <<Head(s)>> \o FilterFees(Tail(s))
    ELSE FilterFees(Tail(s))

RECURSIVE Insert(_, _)
Insert(x, s) ==
    IF s = <<>> THEN <<x>>
    ELSE IF x < Head(s) THEN <<x>> \o s
    ELSE <<Head(s)>> \o Insert(x, Tail(s))

\* fees.sort((a, b) => a - b)
RECURSIVE SortFees(_)
SortFees(s) == IF s = <<>> THEN <<>> ELSE Insert(Head(s), SortFees(Tail(s)))

\* Mutant: an even count takes the upper middle value, without averaging.
MedianFee2_noAverage(fees) ==
    LET sortedFees == SortFees(fees)
        medianIndex == Len(sortedFees) \div 2
    IN  2 * sortedFees[medianIndex + 1]

\* Twice the median the code computes (the average of two integers is a
\* multiple of one half, so twice the value is carried to keep it exact).
MedianFee2(fees) ==
    LET sortedFees == SortFees(fees)
        medianIndex == Len(sortedFees) \div 2      \* 0-based
    IN  IF Len(sortedFees) % 2 = 0
        THEN sortedFees[medianIndex] + sortedFees[medianIndex + 1]
        ELSE 2 * sortedFees[medianIndex + 1]

\* Mutant: a failed or empty query gives no fee (0) instead of the default.
getPriorityFeeEstimate2_noFallback(resp) ==
    IF resp.kind # "result" THEN 0
    ELSE LET fees == FilterFees(resp.samples)
         IN  IF Len(fees) = 0 THEN 0
             ELSE Min(Max(MedianFee2(fees), 2 * DEFAULT_PRIORITY_FEE),
                      2 * DEFAULT_PRIORITY_FEE * 10)

\* Twice the fee getPriorityFeeEstimate returns.
getPriorityFeeEstimate2(resp) ==
    IF resp.kind # "result" THEN 2 * DEFAULT_PRIORITY_FEE
    ELSE LET fees == FilterFees(resp.samples)
         IN  IF Len(fees) = 0 THEN 2 * DEFAULT_PRIORITY_FEE
             ELSE Min(Max(MedianFee2(fees), 2 * DEFAULT_PRIORITY_FEE),
                      2 * DEFAULT_PRIORITY_FEE * 10)

(* ---------------------------------------------------------------------- *)
(* Resource Estimator: simulateAndGetBudget, getComputeBudget              *)
(* ---------------------------------------------------------------------- *)
RECURSIVE Log2Floor(_)
Log2Floor(n) == IF n < 2 THEN 0 ELSE 1 + Log2Floor(n \div 2)

RECURSIVE Pow2(_)
Pow2(e) == IF e = 0 THEN 1 ELSE 2 * Pow2(e - 1)

\* Math.ceil(c * 1.1) in IEEE-754 double arithmetic, for 0 <= c < 2^21.
\* The double 1.1 is 1.1 + 0.4 * 2^-52.  When 11c/10 is not an integer the
\* product is at least 0.1 away from an integer and the ceiling is that of
\* 11c/10.  When n = 11c/10 is an integer the exact product is
\* n + (4n/11) * 2^-52, which rounds (to nearest, ties to even) to the double
\* above n exactly when it exceeds n by more than half an ulp of n, that is
\* when 8n > 11 * 2^floor(log2 n); the ceiling is then n + 1.
MathCeilTimes1_1(c) ==
    IF (11 * c) % 10 # 0 THEN (11 * c) \div 10 + 1
    ELSE LET n == (11 * c) \div 10
         IN  IF n > 0 /\ 8 * n > 11 * Pow2(Log2Floor(n)) THEN n + 1 ELSE n

BudgetIx(kind, units, microLamports2) ==
    [kind |-> kind, units |-> units, microLamports2 |-> microLamports2]

\* The two instructions simulateAndGetBudget returns.
simulateAndGetBudget(units, fee2) ==
    << BudgetIx("SetComputeUnitLimit", MathCeilTimes1_1(units), 0),
       BudgetIx("SetComputeUnitPrice", 0, fee2) >>

\* Mutant: the budget instructions are put after the business instructions.
getComputeBudget_appended(ixs, units, fee2) ==
    ixs \o simulateAndGetBudget(units, fee2)

\* The instruction list getComputeBudget returns, which prepareTransaction
\* appends to the message it compiles.
getComputeBudget(ixs, units, fee2) == simulateAndGetBudget(units, fee2) \o ixs

BusinessIx(i) == BudgetIx("business", i, 0)
InstructionLists ==
    {[i \in 1..n |-> BusinessIx(i)] : n \in 1..MaxInstr}

(* ---------------------------------------------------------------------- *)
(* Settlement values and error messages                                    *)
(* ---------------------------------------------------------------------- *)
\* A message is the sequence of the pieces it is concatenated from.
Pending == [status |-> "pending", value |-> <<>>]
Resolved(sig) == [status |-> "resolved", value |-> <<sig>>]
Rejected(message) == [status |-> "rejected", value |-> message]

OnChainErrs == {"AccountInUse", "InsufficientFundsForFee"}
\* JSON.stringify of an on-chain error that is a string: the quoted string.
JsonStringify(err) == "\"" \o err \o "\""

MsgOnChain(err) == <<"Transaction failed on-chain: ", JsonStringify(err)>>
MsgNotFound ==
    <<"Transaction not found after ", ToString(MAX_RETRIES), " attempts: ",
      signature>>
MsgRpcFailed(message) ==
    <<"Failed to confirm transaction after ", ToString(MAX_RETRIES),
      " attempts: ", message>>
MsgTimeout ==
    <<"Transaction confirmation timeout after ", ToString(TIMEOUT_DURATION),
      "ms: ", signature>>
MsgTransport == "fetch failed"
MsgMissingSignatures == "Transaction is missing signatures"

\* sendTransaction: what the caller gets for a settlement of the promise of
\* confirmSignature (the inner catch prefixes the message, the outer catch
\* rethrows it unchanged).
sendTransaction(settlement) ==
    IF settlement.status = "rejected"
    THEN Rejected(<<"Confirmation failed: ">> \o settlement.value)
    ELSE settlement

Requests ==
    {"getLatestBlockhash", "simulateTransaction",
     "getRecentPrioritizationFees", "sendTransaction", "getTransaction"}

Issue(req) == [issued EXCEPT ![req] = @ + 1]

NoHist ==
    [answers |-> 0,          \* getTransaction answers received
     noRpcError |-> TRUE,    \* none of them was an RPC error
     instant |-> TRUE,       \* each of them came at the time of its request
     foundErr |-> "",        \* the on-chain error a poll found
     foundOk |-> FALSE,      \* a poll found the transaction without error
     settledAt |-> -1,       \* time of the first call of resolve or reject
     lateTimers |-> 0]       \* timer callbacks run after that call

\* The answers of simulateTransaction and of the fee query, kept for the
\* properties of the Estimator when keep is TRUE.
NoSim == [err |-> "none", hasLogs |-> FALSE, logs |-> <<>>, unitsConsumed |-> 0]
NoFee == [kind |-> "none", samples |-> <<>>]
NoAnswers(keep) == [keep |-> keep, sim |-> NoSim, fee |-> NoFee]
KeepSim(sim) == IF answered.keep THEN [answered EXCEPT !.sim = sim] ELSE answered
KeepFee(resp) == IF answered.keep THEN [answered EXCEPT !.fee = resp] ELSE answered

NoInterop == [stage |-> "none"]

\* The state confirmSignature declares per call (retryCount, isResolved,
\* timeoutId, the timers and the request of the call), for a second call.
NoPeer ==
    [pc |-> "none", retryCount |-> 0, isResolved |-> FALSE,
     timeoutTimer |-> "unset", timeoutAt |-> 0, retryTimers |-> {},
     inflight |-> {}, outcome |-> Pending, failed |-> 0, foundOk |-> FALSE]
IdlePeer == [NoPeer EXCEPT !.pc = "idle"]

\* proposePaymentTransaction: where it is, and what its first
\* signAndSendTransaction call gave.
NoPropose == [stage |-> "none", vault |-> Pending, vaultFound |-> FALSE]
VaultCreateIx == BusinessIx(1)
ProposalCreateIx == BusinessIx(2)

(* ---------------------------------------------------------------------- *)
(* Instruction interop                                                     *)
(* ---------------------------------------------------------------------- *)
\* A legacy instruction: programId and pubkeys are public keys, each key
\* has the two flags, data is a byte buffer.
PublicKeys == {"k1", "k2"}
Buffers == {<<>>, <<7, 255>>}
AccountMetas == [pubkey : PublicKeys, isSigner : BOOLEAN, isWritable : BOOLEAN]
LegacyInstructions ==
    [programId : PublicKeys,
     keys : UNION {[1..n -> AccountMetas] : n \in 0..MaxKeys},
     data : Buffers]

\* PublicKey.toBase58() and new PublicKey(address).
toBase58(key) == "b58:" \o key
PublicKey(addr) == CHOOSE k \in PublicKeys : toBase58(k) = addr

\* fromLegacyTransactionInstruction: each (isSigner, isWritable) pair gets
\* one of the four roles, program identifier and data keep their bytes.
AccountRole(isSigner, isWritable) ==
    IF isSigner
    THEN IF isWritable THEN "WRITABLE_SIGNER" ELSE "READONLY_SIGNER"
    ELSE IF isWritable THEN "WRITABLE" ELSE "READONLY"

fromLegacyTransactionInstruction(ix) ==
    [programAddress |-> toBase58(ix.programId),
     accounts |-> [i \in 1..Len(ix.keys) |->
                     [address |-> toBase58(ix.keys[i].pubkey),
                      role |-> AccountRole(ix.keys[i].isSigner,
                                           ix.keys[i].isWritable)]],
     data |-> ix.data]

\* Mutant: only the WRITABLE role is taken as writable.
TransactionInstruction_writableOnly(ix) ==
    [programId |-> PublicKey(ix.programAddress),
     keys |-> [i \in 1..Len(ix.accounts) |->
                 [pubkey |-> PublicKey(ix.accounts[i].address),
                  isSigner |-> ix.accounts[i].role
                                 \in {"WRITABLE_SIGNER", "READONLY_SIGNER"},
                  isWritable |-> ix.accounts[i].role = "WRITABLE"]],
     data |-> ix.data]

\* createSquadsTransactionMessage: the TransactionInstruction built from a
\* modern instruction (role to flags).
TransactionInstruction(ix) ==
    [programId |-> PublicKey(ix.programAddress),
     keys |-> [i \in 1..Len(ix.accounts) |->
                 [pubkey |-> PublicKey(ix.accounts[i].address),
                  isSigner |-> ix.accounts[i].role
                                 \in {"WRITABLE_SIGNER", "READONLY_SIGNER"},
                  isWritable |-> ix.accounts[i].role
                                   \in {"WRITABLE", "WRITABLE_SIGNER"}]],
     data |-> ix.data]

NoModern == [programAddress |-> "", accounts |-> <<>>, data |-> <<>>]
NoLegacy == [programId |-> "", keys |-> <<>>, data |-> <<>>]

(* ---------------------------------------------------------------------- *)
(* State machine                                                           *)
(* ---------------------------------------------------------------------- *)
Init ==
    /\ pc = "idle"
    /\ instructions \in InstructionLists
    /\ signersOk \in BOOLEAN
    /\ issued = [r \in Requests |-> 0]
    /\ simState = "idle"
    /\ simErr = FALSE
    /\ computeUnits = 0
    /\ feeState = "idle"
    /\ priorityFee2 = 0
    /\ envelope = <<>>
    /\ signed = FALSE
    /\ result = Pending
    /\ now = 0
    /\ retryCount = 0
    /\ isResolved = FALSE
    /\ timeoutTimer = "unset"
    /\ retryTimers = {}
    /\ inflight = {}
    /\ calls = <<>>
    /\ hist = NoHist
    /\ answered = NoAnswers(FALSE)
    /\ interop = NoInterop
    /\ peer = NoPeer
    /\ propose = NoPropose

pollerVars == <<now, retryCount, isResolved, timeoutTimer, retryTimers,
                inflight, calls, hist>>
estimatorVars == <<simState, simErr, computeUnits, feeState, priorityFee2,
                   answered>>
callerVars == <<instructions, signersOk, interop, peer, propose>>

\* signAndSendTransaction is called: prepareTransaction asks for the blockhash.
SignAndSend ==
    /\ pc = "idle"
    /\ pc' = "blockhash"
    /\ issued' = Issue("getLatestBlockhash")
    /\ UNCHANGED <<callerVars, estimatorVars, envelope, signed,
                   result, pollerVars>>

\* Mutant: the fee query is made only after the simulation has answered
\* (here: it is not made with the simulation request).
BlockhashOk_sequential ==
    /\ pc = "blockhash"
    /\ pc' = "estimating"
    /\ issued' = Issue("simulateTransaction")
    /\ simState' = "pending"
    /\ UNCHANGED <<callerVars, simErr, computeUnits, answered, feeState,
                   priorityFee2, envelope, signed, result, pollerVars>>

\* getLatestBlockhash answers: getComputeBudget, simulateAndGetBudget, and
\* Promise.all calls getComputeUnits and getPriorityFeeEstimate, each of
\* which runs up to its request.
BlockhashOk ==
    /\ pc = "blockhash"
    /\ pc' = "estimating"
    /\ issued' = [issued EXCEPT !["simulateTransaction"] = @ + 1,
                                !["getRecentPrioritizationFees"] = @ + 1]
    /\ simState' = "pending"
    /\ feeState' = "pending"
    /\ UNCHANGED <<callerVars, simErr, computeUnits, answered,
                   priorityFee2, envelope, signed, result, pollerVars>>

BlockhashFail ==
    /\ pc = "blockhash"
    /\ pc' = "done"
    /\ result' = Rejected(<<MsgTransport>>)
    /\ UNCHANGED <<callerVars, issued, estimatorVars, envelope,
                   signed, pollerVars>>

\* Promise.all has both values: getComputeBudget returns the instruction
\* list and prepareTransaction compiles the transaction.
Compiled(units, fee2) == getComputeBudget(instructions, units, fee2)

\* Mutant: an error of getComputeUnits is caught and the placeholder limit
\* is used instead.
SimulateResponse_swallow(sim) ==
    /\ pc = "estimating"
    /\ simState = "pending"
    /\ simErr' = (sim.err # NoErr)
    /\ answered' = KeepSim(sim)
    /\ LET r == getComputeUnits(sim)
           units == IF r.threw THEN DEFAULT_COMPUTE_UNITS ELSE r.units
       IN  /\ simState' = IF r.threw THEN "threw" ELSE "returned"
           /\ computeUnits' = units
           /\ result' = result
           /\ IF feeState = "returned"
              THEN /\ pc' = "signing"
                   /\ envelope' = Compiled(units, priorityFee2)
              ELSE UNCHANGED <<pc, envelope>>
    /\ UNCHANGED <<callerVars, issued, feeState, priorityFee2,
                   signed, pollerVars>>

\* simulateTransaction answers.
SimulateResponse(sim) ==
    /\ pc = "estimating"
    /\ simState = "pending"
    /\ simErr' = (sim.err # NoErr)
    /\ answered' = KeepSim(sim)
    /\ LET r == getComputeUnits(sim)
       IN  IF r.threw
           THEN /\ simState' = "threw"
                /\ pc' = "done"
                /\ result' = Rejected(<<r.message>>)
                /\ UNCHANGED <<computeUnits, envelope>>
           ELSE /\ simState' = "returned"
                /\ computeUnits' = r.units
                /\ result' = result
                /\ IF feeState = "returned"
                   THEN /\ pc' = "signing"
                        /\ envelope' = Compiled(r.units, priorityFee2)
                   ELSE UNCHANGED <<pc, envelope>>
    /\ UNCHANGED <<callerVars, issued, feeState, priorityFee2,
                   signed, pollerVars>>

\* The simulateTransaction request fails in transport.
SimulateFail ==
    /\ pc = "estimating"
    /\ simState = "pending"
    /\ simState' = "threw"
    /\ pc' = "done"
    /\ result' = Rejected(<<MsgTransport>>)
    /\ UNCHANGED <<callerVars, issued, simErr, computeUnits, answered,
                   feeState, priorityFee2, envelope, signed, pollerVars>>

\* The fee request answers (or fails: getPriorityFeeEstimate catches it).
FeeResponse(resp) ==
    /\ feeState = "pending"
    /\ feeState' = "returned"
    /\ priorityFee2' = getPriorityFeeEstimate2(resp)
    /\ answered' = KeepFee(resp)
    /\ IF pc = "estimating" /\ simState = "returned"
       THEN /\ pc' = "signing"
            /\ envelope' = Compiled(computeUnits, getPriorityFeeEstimate2(resp))
       ELSE UNCHANGED <<pc, envelope>>
    /\ UNCHANGED <<callerVars, issued, simState, simErr,
                   computeUnits, signed, result, pollerVars>>

\* Mutant: the transaction is sent whether or not every signer slot is filled.
Sign_unchecked ==
    /\ pc = "signing"
    /\ signed' = TRUE
    /\ pc' = "sending"
    /\ issued' = Issue("sendTransaction")
    /\ UNCHANGED <<callerVars, estimatorVars, envelope, result, pollerVars>>

\* signTransaction, getBase64EncodedWireTransaction, then sendTransaction
\* calls sendRawTransaction, which issues the request.
Sign ==
    /\ pc = "signing"
    /\ IF signersOk
       THEN /\ signed' = TRUE
            /\ pc' = "sending"
            /\ issued' = Issue("sendTransaction")
            /\ result' = result
       ELSE /\ pc' = "done"
            /\ result' = Rejected(<<MsgMissingSignatures>>)
            /\ UNCHANGED <<signed, issued>>
    /\ UNCHANGED <<callerVars, estimatorVars, envelope,
                   pollerVars>>

\* The request options of sendRawTransaction.
sendRawTransaction ==
    [encoding |-> "base64", skipPreflight |-> TRUE, maxRetries |-> 0,
     preflightCommitment |-> "confirmed"]

\* cleanup(): clearTimeout(timeoutId), which is all it clears.
cleanup(timer) == IF timer = "pending" THEN "cleared" ELSE timer

\* Mutant: a later call of resolve or reject replaces the earlier outcome.
Settle_lastWins(settlement) ==
    /\ calls' = Append(calls, settlement)
    /\ result' = sendTransaction(settlement)
    /\ pc' = "done"

\* resolve(...) or reject(...) is called; the first call settles the promise
\* sendTransaction awaits, and with it the signAndSendTransaction call.
Settle(settlement) ==
    /\ calls' = Append(calls, settlement)
    /\ IF calls = <<>>
       THEN /\ result' = sendTransaction(settlement)
            /\ pc' = "done"
       ELSE UNCHANGED <<result, pc>>

\* checkConfirmation up to its await: the getTransaction request.
IssuePoll ==
    /\ issued' = Issue("getTransaction")
    /\ inflight' = inflight \cup {now}

\* Mutant: confirmSignature starts the first check without an overall timeout.
SendOk_noTimeout ==
    /\ pc = "sending"
    /\ pc' = "confirming"
    /\ IssuePoll
    /\ UNCHANGED <<callerVars, estimatorVars, envelope, signed,
                   result, now, retryCount, isResolved, timeoutTimer,
                   retryTimers, calls, hist>>

\* sendTransaction answers with the signature: confirmSignature sets the
\* overall timeout and starts the first check.
SendOk ==
    /\ pc = "sending"
    /\ pc' = "confirming"
    /\ timeoutTimer' = "pending"
    /\ IssuePoll
    /\ UNCHANGED <<callerVars, estimatorVars, envelope, signed,
                   result, now, retryCount, isResolved, retryTimers, calls,
                   hist>>

\* Mutant: a failed broadcast is submitted again.
SendFail_resend ==
    /\ pc = "sending"
    /\ issued' = Issue("sendTransaction")
    /\ UNCHANGED <<pc, callerVars, estimatorVars, envelope,
                   signed, result, pollerVars>>

\* The sendTransaction request fails.
SendFail ==
    /\ pc = "sending"
    /\ pc' = "done"
    /\ result' = Rejected(<<MsgTransport>>)
    /\ UNCHANGED <<callerVars, issued, estimatorVars, envelope,
                   signed, pollerVars>>

PollAnswers ==
    {[kind |-> "found", err |-> ""], [kind |-> "notFound", err |-> ""],
     [kind |-> "rpcError", err |-> ""]}
    \cup {[kind |-> "found", err |-> e] : e \in OnChainErrs}

\* The "not found" and the catch branch of checkConfirmation: message is
\* the error of the branch when the ceiling is reached.
RetryOrGiveUpWhen(message, ceilingReached) ==
    /\ retryCount' = retryCount + 1
    /\ IF ceilingReached
       THEN /\ isResolved' = TRUE
            /\ timeoutTimer' = cleanup(timeoutTimer)
            /\ Settle(Rejected(message))
            /\ UNCHANGED retryTimers
       ELSE /\ retryTimers' = retryTimers \cup {now + RETRY_INTERVAL}
            /\ UNCHANGED <<isResolved, timeoutTimer, calls, result, pc>>

\* Mutant: the first failed poll is already taken as the failure.
RetryOrGiveUp_failOnFirst(message) ==
    RetryOrGiveUpWhen(message, retryCount + 1 >= 1)

\* Mutant: the ceiling is compared with > instead of >=.
RetryOrGiveUp_offByOne(message) ==
    RetryOrGiveUpWhen(message, retryCount + 1 > MAX_RETRIES)

\* Mutant: the retry is scheduled with no delay.
RetryOrGiveUp_noInterval(message) ==
    /\ retryCount' = retryCount + 1
    /\ IF retryCount + 1 >= MAX_RETRIES
       THEN /\ isResolved' = TRUE
            /\ timeoutTimer' = cleanup(timeoutTimer)
            /\ Settle(Rejected(message))
            /\ UNCHANGED retryTimers
       ELSE /\ retryTimers' = retryTimers \cup {now}
            /\ UNCHANGED <<isResolved, timeoutTimer, calls, result, pc>>

RetryOrGiveUp(message) ==
    RetryOrGiveUpWhen(message, retryCount + 1 >= MAX_RETRIES)

\* Mutant: an on-chain error is retried like a failed poll.
checkConfirmation_retryOnChainError(ans) ==
    IF ans.kind = "found" /\ ans.err = ""
    THEN /\ isResolved' = TRUE
         /\ timeoutTimer' = cleanup(timeoutTimer)
         /\ Settle(Resolved(signature))
         /\ UNCHANGED <<retryCount, retryTimers>>
    ELSE IF ans.kind = "found"
    THEN RetryOrGiveUp(MsgOnChain(ans.err))
    ELSE IF ans.kind = "notFound"
    THEN RetryOrGiveUp(MsgNotFound)
    ELSE RetryOrGiveUp(MsgRpcFailed(MsgTransport))

\* Mutant: a poll that fails with an RPC error is retried without counting.
checkConfirmation_rpcErrorUncounted(ans) ==
    IF ans.kind = "found"
    THEN /\ isResolved' = TRUE
         /\ timeoutTimer' = cleanup(timeoutTimer)
         /\ Settle(IF ans.err # "" THEN Rejected(MsgOnChain(ans.err))
                   ELSE Resolved(signature))
         /\ UNCHANGED <<retryCount, retryTimers>>
    ELSE IF ans.kind = "notFound"
    THEN RetryOrGiveUp(MsgNotFound)
    ELSE /\ retryTimers' = retryTimers \cup {now + RETRY_INTERVAL}
         /\ UNCHANGED <<retryCount, isResolved, timeoutTimer, calls, result, pc>>

\* The continuation of checkConfirmation after its await, for one answer.
checkConfirmation(ans) ==
    IF ans.kind = "found"
    THEN /\ isResolved' = TRUE
         /\ timeoutTimer' = cleanup(timeoutTimer)
         /\ Settle(IF ans.err # "" THEN Rejected(MsgOnChain(ans.err))
                   ELSE Resolved(signature))
         /\ UNCHANGED <<retryCount, retryTimers>>
    ELSE IF ans.kind = "notFound"
    THEN RetryOrGiveUp(MsgNotFound)
    ELSE RetryOrGiveUp(MsgRpcFailed(MsgTransport))

\* A getTransaction request issued at time t is answered.
PollAnswer(t, ans) ==
    /\ t \in inflight
    /\ inflight' = inflight \ {t}
    /\ checkConfirmation(ans)
    /\ hist' = [hist EXCEPT
                  !.answers = @ + 1,
                  !.noRpcError = @ /\ ans.kind # "rpcError",
                  !.instant = @ /\ t = now,
                  !.foundErr = IF ans.kind = "found" /\ ans.err # ""
                               THEN ans.err ELSE @,
                  !.foundOk = @ \/ (ans.kind = "found" /\ ans.err = ""),
                  !.settledAt = IF calls = <<>> /\ calls' # <<>>
                                THEN now ELSE @]
    /\ UNCHANGED <<callerVars, issued, estimatorVars, envelope,
                   signed, now>>

\* Mutant: checkConfirmation polls without looking at isResolved.
RetryTimerFires_unguarded(d) ==
    /\ d \in retryTimers
    /\ d <= now
    /\ retryTimers' = retryTimers \ {d}
    /\ IssuePoll
    /\ hist' = hist
    /\ UNCHANGED <<pc, callerVars, estimatorVars, envelope,
                   signed, result, now, retryCount, isResolved, timeoutTimer,
                   calls>>

\* A timer set by setTimeout(checkConfirmation, RETRY_INTERVAL) fires.
RetryTimerFires(d) ==
    /\ d \in retryTimers
    /\ d <= now
    /\ retryTimers' = retryTimers \ {d}
    /\ IF isResolved
       THEN /\ hist' = [hist EXCEPT !.lateTimers = @ + 1]
            /\ UNCHANGED <<issued, inflight>>
       ELSE /\ IssuePoll
            /\ hist' = hist
    /\ UNCHANGED <<pc, callerVars, estimatorVars, envelope,
                   signed, result, now, retryCount, isResolved, timeoutTimer,
                   calls>>

\* Mutant: the timeout callback marks the call resolved and forgets to reject.
TimeoutFires_noReject ==
    /\ timeoutTimer = "pending"
    /\ TIMEOUT_DURATION <= now
    /\ isResolved' = TRUE
    /\ timeoutTimer' = "fired"
    /\ UNCHANGED <<pc, callerVars, issued, estimatorVars,
                   envelope, signed, result, now, retryCount, retryTimers,
                   inflight, calls, hist>>

\* The overall timeout set in confirmSignature fires.
TimeoutFires ==
    /\ timeoutTimer = "pending"
    /\ TIMEOUT_DURATION <= now
    /\ IF ~isResolved
       THEN /\ isResolved' = TRUE
            /\ timeoutTimer' = "fired"
            /\ Settle(Rejected(MsgTimeout))
            /\ hist' = [hist EXCEPT !.settledAt = now]
       ELSE /\ timeoutTimer' = "fired"
            /\ hist' = [hist EXCEPT !.lateTimers = @ + 1]
            /\ UNCHANGED <<isResolved, calls, result, pc>>
    /\ UNCHANGED <<callerVars, issued, estimatorVars, envelope,
                   signed, now, retryCount, retryTimers, inflight>>

\* Time passes, up to the next timer that is due: a timer runs when due.
DueTimes ==
    retryTimers \cup (IF timeoutTimer = "pending" THEN {TIMEOUT_DURATION} ELSE {})
    \cup peer.retryTimers
    \cup (IF peer.timeoutTimer = "pending" THEN {peer.timeoutAt} ELSE {})

Advance ==
    /\ DueTimes \cup inflight \cup peer.inflight # {}
    /\ now < MaxTime
    /\ \A d \in DueTimes : d > now
    /\ now' = CHOOSE t \in DueTimes \cup {Min(now + Step, MaxTime)} :
                 \A u \in DueTimes \cup {Min(now + Step, MaxTime)} : t <= u
    /\ UNCHANGED <<pc, callerVars, issued, estimatorVars,
                   envelope, signed, result, retryCount, isResolved,
                   timeoutTimer, retryTimers, inflight, calls, hist>>

Next ==
    \/ SignAndSend
    \/ BlockhashOk
    \/ BlockhashFail
    \/ \E sim \in SimResults : SimulateResponse(sim)
    \/ SimulateFail
    \/ \E resp \in FeeResponses : FeeResponse(resp)
    \/ Sign
    \/ SendOk
    \/ SendFail
    \/ \E t \in inflight, ans \in PollAnswers : PollAnswer(t, ans)
    \/ \E d \in retryTimers : RetryTimerFires(d)
    \/ TimeoutFires
    \/ Advance

Spec == Init /\ [][Next]_vars

\* The confirmation alone: one call, from its sendTransaction request on.
InitConfirm ==
    /\ pc = "sending"
    /\ instructions = <<BusinessIx(1)>>
    /\ signersOk = TRUE
    /\ issued = [r \in Requests |-> IF r = "getTransaction" THEN 0 ELSE 1]
    /\ simState = "returned"
    /\ simErr = FALSE
    /\ computeUnits = DEFAULT_COMPUTE_UNITS
    /\ feeState = "returned"
    /\ priorityFee2 = 2 * DEFAULT_PRIORITY_FEE
    /\ envelope = getComputeBudget(<<BusinessIx(1)>>, DEFAULT_COMPUTE_UNITS,
                                   2 * DEFAULT_PRIORITY_FEE)
    /\ signed = TRUE
    /\ result = Pending
    /\ now = 0
    /\ retryCount = 0
    /\ isResolved = FALSE
    /\ timeoutTimer = "unset"
    /\ retryTimers = {}
    /\ inflight = {}
    /\ calls = <<>>
    /\ hist = NoHist
    /\ answered = NoAnswers(FALSE)
    /\ interop = NoInterop
    /\ peer = NoPeer
    /\ propose = NoPropose

NextConfirm ==
    \/ SendOk
    \/ SendFail
    \/ \E t \in inflight, ans \in PollAnswers : PollAnswer(t, ans)
    \/ \E d \in retryTimers : RetryTimerFires(d)
    \/ TimeoutFires
    \/ Advance

SpecConfirm == InitConfirm /\ [][NextConfirm]_vars

\* The confirmation alone where time passes and every timer that is due
\* runs its callback; nothing is assumed of the answers of the RPC.
SpecConfirmLive ==
    /\ SpecConfirm
    /\ WF_vars(Advance)
    /\ WF_vars(TimeoutFires)
    /\ WF_vars(\E d \in retryTimers : RetryTimerFires(d))

\* The preparation alone, with the answers of its requests kept: one call
\* up to its sendTransaction request.
InitEstimate ==
    /\ pc = "idle"
    /\ instructions = <<BusinessIx(1)>>
    /\ signersOk = TRUE
    /\ issued = [r \in Requests |-> 0]
    /\ simState = "idle"
    /\ simErr = FALSE
    /\ computeUnits = 0
    /\ feeState = "idle"
    /\ priorityFee2 = 0
    /\ envelope = <<>>
    /\ signed = FALSE
    /\ result = Pending
    /\ now = 0
    /\ retryCount = 0
    /\ isResolved = FALSE
    /\ timeoutTimer = "unset"
    /\ retryTimers = {}
    /\ inflight = {}
    /\ calls = <<>>
    /\ hist = NoHist
    /\ answered = NoAnswers(TRUE)
    /\ interop = NoInterop
    /\ peer = NoPeer
    /\ propose = NoPropose

NextEstimate ==
    \/ SignAndSend
    \/ BlockhashOk
    \/ BlockhashFail
    \/ \E sim \in SimResults : SimulateResponse(sim)
    \/ SimulateFail
    \/ \E resp \in FeeResponses : FeeResponse(resp)
    \/ Sign

SpecEstimate == InitEstimate /\ [][NextEstimate]_vars

\* The conversions alone: a legacy instruction is converted to the modern
\* form, and the modern form back to a TransactionInstruction.
Adapt ==
    /\ interop.stage = "legacy"
    /\ interop' = [interop EXCEPT
                     !.stage = "modern",
                     !.modern = fromLegacyTransactionInstruction(interop.legacy)]
    /\ UNCHANGED <<pc, instructions, signersOk, peer, propose, issued,
                   estimatorVars, envelope, signed, result, pollerVars>>

ToLegacy ==
    /\ interop.stage = "modern"
    /\ interop' = [interop EXCEPT
                     !.stage = "back",
                     !.back = TransactionInstruction(interop.modern)]
    /\ UNCHANGED <<pc, instructions, signersOk, peer, propose, issued,
                   estimatorVars, envelope, signed, result, pollerVars>>

InitAdapt ==
    /\ pc = "idle"
    /\ instructions = <<BusinessIx(1)>>
    /\ signersOk = TRUE
    /\ issued = [r \in Requests |-> 0]
    /\ simState = "idle"
    /\ simErr = FALSE
    /\ computeUnits = 0
    /\ feeState = "idle"
    /\ priorityFee2 = 0
    /\ envelope = <<>>
    /\ signed = FALSE
    /\ result = Pending
    /\ now = 0
    /\ retryCount = 0
    /\ isResolved = FALSE
    /\ timeoutTimer = "unset"
    /\ retryTimers = {}
    /\ inflight = {}
    /\ calls = <<>>
    /\ hist = NoHist
    /\ answered = NoAnswers(FALSE)
    /\ \E l \in LegacyInstructions :
          interop = [stage |-> "legacy", legacy |-> l, modern |-> NoModern,
                     back |-> NoLegacy]
    /\ peer = NoPeer
    /\ propose = NoPropose

NextAdapt == Adapt \/ ToLegacy

SpecAdapt == InitAdapt /\ [][NextAdapt]_vars

(* ---------------------------------------------------------------------- *)
(* A second, concurrent confirmSignature invocation                        *)
(* ---------------------------------------------------------------------- *)
\* resolve or reject called in the second invocation: the first call settles.
SettleOf(p, settlement) ==
    IF p.outcome = Pending THEN [p EXCEPT !.outcome = settlement] ELSE p

RetryOrGiveUpOf(p, message) ==
    LET q == [p EXCEPT !.retryCount = @ + 1, !.failed = @ + 1]
    IN  IF q.retryCount >= MAX_RETRIES
        THEN SettleOf([q EXCEPT !.isResolved = TRUE,
                                !.timeoutTimer = cleanup(@)],
                      Rejected(message))
        ELSE [q EXCEPT !.retryTimers = @ \cup {now + RETRY_INTERVAL}]

checkConfirmationOf(p, ans) ==
    IF ans.kind = "found"
    THEN SettleOf([p EXCEPT !.isResolved = TRUE,
                            !.timeoutTimer = cleanup(@),
                            !.foundOk = @ \/ ans.err = ""],
                  IF ans.err # "" THEN Rejected(MsgOnChain(ans.err))
                  ELSE Resolved(signature))
    ELSE IF ans.kind = "notFound"
    THEN RetryOrGiveUpOf(p, MsgNotFound)
    ELSE RetryOrGiveUpOf(p, MsgRpcFailed(MsgTransport))

firstCallVars ==
    <<pc, instructions, signersOk, interop, propose, issued, estimatorVars,
      envelope, signed, result, retryCount, isResolved, timeoutTimer,
      retryTimers, inflight, calls, hist>>

\* confirmSignature is called a second time while the first call runs.
PeerStart ==
    /\ peer.pc = "idle"
    /\ timeoutTimer # "unset"
    /\ now + TIMEOUT_DURATION + RETRY_INTERVAL <= MaxTime
    /\ peer' = [peer EXCEPT !.pc = "confirming",
                            !.timeoutTimer = "pending",
                            !.timeoutAt = now + TIMEOUT_DURATION,
                            !.inflight = {now}]
    /\ UNCHANGED <<firstCallVars, now>>

\* Mutant: retryCount is one variable of the module, shared by the calls.
PeerPollAnswer_sharedCounter(t, ans) ==
    /\ t \in peer.inflight
    /\ peer' = checkConfirmationOf([peer EXCEPT !.inflight = @ \ {t}], ans)
    /\ retryCount' = IF ans.kind = "found" THEN retryCount
                     ELSE Min(retryCount + 1, MAX_RETRIES)
    /\ UNCHANGED <<pc, instructions, signersOk, interop, propose, issued,
                   estimatorVars, envelope, signed, result, isResolved,
                   timeoutTimer, retryTimers, inflight, calls, hist, now>>

\* The getTransaction request of the second invocation is answered.
PeerPollAnswer(t, ans) ==
    /\ t \in peer.inflight
    /\ peer' = checkConfirmationOf([peer EXCEPT !.inflight = @ \ {t}], ans)
    /\ UNCHANGED <<firstCallVars, now>>

PeerRetryTimerFires(d) ==
    /\ d \in peer.retryTimers
    /\ d <= now
    /\ peer' = IF peer.isResolved
               THEN [peer EXCEPT !.retryTimers = @ \ {d}]
               ELSE [peer EXCEPT !.retryTimers = @ \ {d},
                                 !.inflight = @ \cup {now}]
    /\ UNCHANGED <<firstCallVars, now>>

PeerTimeoutFires ==
    /\ peer.timeoutTimer = "pending"
    /\ peer.timeoutAt <= now
    /\ peer' = IF ~peer.isResolved
               THEN SettleOf([peer EXCEPT !.isResolved = TRUE,
                                          !.timeoutTimer = "fired"],
                             Rejected(MsgTimeout))
               ELSE [peer EXCEPT !.timeoutTimer = "fired"]
    /\ UNCHANGED <<firstCallVars, now>>

InitTwo ==
    /\ pc = "sending"
    /\ instructions = <<BusinessIx(1)>>
    /\ signersOk = TRUE
    /\ issued = [r \in Requests |-> IF r = "getTransaction" THEN 0 ELSE 1]
    /\ simState = "returned"
    /\ simErr = FALSE
    /\ computeUnits = DEFAULT_COMPUTE_UNITS
    /\ feeState = "returned"
    /\ priorityFee2 = 2 * DEFAULT_PRIORITY_FEE
    /\ envelope = getComputeBudget(<<BusinessIx(1)>>, DEFAULT_COMPUTE_UNITS,
                                   2 * DEFAULT_PRIORITY_FEE)
    /\ signed = TRUE
    /\ result = Pending
    /\ now = 0
    /\ retryCount = 0
    /\ isResolved = FALSE
    /\ timeoutTimer = "unset"
    /\ retryTimers = {}
    /\ inflight = {}
    /\ calls = <<>>
    /\ hist = NoHist
    /\ answered = NoAnswers(FALSE)
    /\ interop = NoInterop
    /\ peer = IdlePeer
    /\ propose = NoPropose

NextTwo ==
    \/ SendOk
    \/ SendFail
    \/ \E t \in inflight, ans \in PollAnswers : PollAnswer(t, ans)
    \/ \E d \in retryTimers : RetryTimerFires(d)
    \/ TimeoutFires
    \/ Advance
    \/ PeerStart
    \/ \E t \in peer.inflight, ans \in PollAnswers : PeerPollAnswer(t, ans)
    \/ \E d \in peer.retryTimers : PeerRetryTimerFires(d)
    \/ PeerTimeoutFires

SpecTwo == InitTwo /\ [][NextTwo]_vars

(* ---------------------------------------------------------------------- *)
(* proposePaymentTransaction                                               *)
(* ---------------------------------------------------------------------- *)
\* The state a signAndSendTransaction call starts from, for instruction ix.
CallStarts(ix) ==
    /\ pc' = "idle"
    /\ instructions' = <<ix>>
    /\ issued' = [r \in Requests |-> 0]
    /\ simState' = "idle"
    /\ simErr' = FALSE
    /\ computeUnits' = 0
    /\ feeState' = "idle"
    /\ priorityFee2' = 0
    /\ envelope' = <<>>
    /\ signed' = FALSE
    /\ result' = Pending
    /\ now' = 0
    /\ retryCount' = 0
    /\ isResolved' = FALSE
    /\ timeoutTimer' = "unset"
    /\ retryTimers' = {}
    /\ inflight' = {}
    /\ calls' = <<>>
    /\ hist' = NoHist
    /\ UNCHANGED <<signersOk, answered, interop, peer>>

\* Mutant: the outcome of the vault-transaction call is not looked at
\* (its rejection is caught and the proposal is created all the same).
ProposalCreate_unconditional ==
    /\ propose.stage = "vault"
    /\ pc = "done"
    /\ propose' = [stage |-> "proposal", vault |-> result,
                   vaultFound |-> hist.foundOk]
    /\ CallStarts(ProposalCreateIx)

\* The await of the first signAndSendTransaction returns the signature:
\* the proposal instruction is built and the second call is made.
ProposalCreate ==
    /\ propose.stage = "vault"
    /\ pc = "done"
    /\ result.status = "resolved"
    /\ propose' = [stage |-> "proposal", vault |-> result,
                   vaultFound |-> hist.foundOk]
    /\ CallStarts(ProposalCreateIx)

\* The await of either call throws: the catch logs and rethrows.
ProposeFails ==
    /\ propose.stage \in {"vault", "proposal"}
    /\ pc = "done"
    /\ result.status = "rejected"
    /\ propose' = IF propose.stage = "vault"
                  THEN [propose EXCEPT !.stage = "failed", !.vault = result]
                  ELSE [propose EXCEPT !.stage = "failed"]
    /\ UNCHANGED <<pc, instructions, signersOk, interop, peer, issued,
                   estimatorVars, envelope, signed, result, pollerVars>>

\* The second call resolves: proposePaymentTransaction returns.
ProposeDone ==
    /\ propose.stage = "proposal"
    /\ pc = "done"
    /\ result.status = "resolved"
    /\ propose' = [propose EXCEPT !.stage = "done"]
    /\ UNCHANGED <<pc, instructions, signersOk, interop, peer, issued,
                   estimatorVars, envelope, signed, result, pollerVars>>

InitPropose ==
    /\ pc = "idle"
    /\ instructions = <<VaultCreateIx>>
    /\ signersOk \in BOOLEAN
    /\ issued = [r \in Requests |-> 0]
    /\ simState = "idle"
    /\ simErr = FALSE
    /\ computeUnits = 0
    /\ feeState = "idle"
    /\ priorityFee2 = 0
    /\ envelope = <<>>
    /\ signed = FALSE
    /\ result = Pending
    /\ now = 0
    /\ retryCount = 0
    /\ isResolved = FALSE
    /\ timeoutTimer = "unset"
    /\ retryTimers = {}
    /\ inflight = {}
    /\ calls = <<>>
    /\ hist = NoHist
    /\ answered = NoAnswers(FALSE)
    /\ interop = NoInterop
    /\ peer = NoPeer
    /\ propose = [stage |-> "vault", vault |-> Pending, vaultFound |-> FALSE]

NextPropose ==
    \/ propose.stage \in {"vault", "proposal"} /\ Next
    \/ ProposalCreate
    \/ ProposeFails
    \/ ProposeDone

SpecPropose == InitPropose /\ [][NextPropose]_vars

TypeOK ==
    /\ pc \in {"idle", "blockhash", "estimating", "signing", "sending",
               "confirming", "done"}
    /\ retryCount \in 0..MAX_RETRIES
    /\ now \in 0..(MaxTime + RETRY_INTERVAL)
    /\ Len(calls) <= 2

(* ---------------------------------------------------------------------- *)
(* Properties                                                              *)
(* ---------------------------------------------------------------------- *)
Started == timeoutTimer # "unset"
Wrapped(message) == Rejected(<<"Confirmation failed: ">> \o message)

\* C1: in one confirmSignature invocation resolve and reject are called at
\* most once in total, also when a getTransaction answer arrives after the
\* overall timeout has fired.
C1_SettledAtMostOnce == Len(calls) <= 1

\* C2: once confirmSignature has settled, the overall-timeout timer and any
\* scheduled retry timer are cancelled, and no timer callback of the
\* invocation runs after the settlement.
C2_TimersCancelledOnSettle ==
    /\ calls # <<>> => retryTimers = {} /\ timeoutTimer # "pending"
    /\ hist.lateTimers = 0

\* C3: when a poll finds the transaction with an on-chain error, reject is
\* called in that step with a message that embeds the error payload (and it
\* is what the caller gets unless the promise had settled before), and no
\* getTransaction request is issued afterwards, whatever the retry count.
C3_OnChainErrorNotRetried ==
    /\ [](hist.foundErr # "" =>
            /\ calls # <<>>
            /\ calls[Len(calls)] = Rejected(MsgOnChain(hist.foundErr))
            /\ JsonStringify(hist.foundErr) \in Range(calls[Len(calls)].value)
            /\ Len(calls) = 1 =>
                 /\ result = Wrapped(MsgOnChain(hist.foundErr))
                 /\ JsonStringify(hist.foundErr) \in Range(result.value)
                 /\ hist.settledAt = now)
    /\ [][hist.foundErr # "" =>
            issued'["getTransaction"] = issued["getTransaction"]]_vars
    /\ [][hist.foundErr = "" /\ hist'.foundErr # "" =>
            /\ calls' = Append(calls, Rejected(MsgOnChain(hist'.foundErr)))
            /\ issued' = issued
            /\ retryTimers' = {}]_vars

C3_Witness ==
    /\ hist.foundErr # ""
    /\ retryCount > 0
    /\ result = Wrapped(MsgOnChain(hist.foundErr))

\* C4: if the first k polls (k from 0 to 6) answer "not found", the next
\* poll finds the transaction without error and the overall timeout has not
\* fired, the call resolves with the signature; a "not found" answer below
\* the ceiling is not a failure: the "not found" rejection needs 7 failed
\* polls.
C4_FoundAfterNotFoundResolves ==
    /\ hist.foundOk /\ hist.noRpcError /\ timeoutTimer # "fired" =>
         /\ retryCount \in 0..(MAX_RETRIES - 1)
         /\ calls = <<Resolved(signature)>>
         /\ result = Resolved(signature)
    /\ Rejected(MsgNotFound) \in Range(calls) => retryCount = MAX_RETRIES

C4_Witness ==
    /\ hist.foundOk /\ hist.noRpcError
    /\ retryCount = MAX_RETRIES - 1
    /\ result = Resolved(signature)

\* C5: if every poll answers "not found" at once, the call rejects with the
\* "not found after 7 attempts" error on the 7th poll, at 6000 ms, before
\* the overall timeout can fire, and no signature is returned.
Negligible == hist.instant /\ \A t \in inflight : t = now
AllNotFound == hist.noRpcError /\ hist.answers = retryCount

C5_CeilingBeforeTimeout ==
    Started /\ Negligible /\ AllNotFound =>
        /\ now <= (MAX_RETRIES - 1) * RETRY_INTERVAL
        /\ timeoutTimer # "fired"
        /\ calls # <<>> <=> retryCount = MAX_RETRIES
        /\ retryCount = MAX_RETRIES =>
             /\ calls = <<Rejected(MsgNotFound)>>
             /\ result = Wrapped(MsgNotFound)
             /\ issued["getTransaction"] = MAX_RETRIES
             /\ hist.settledAt = (MAX_RETRIES - 1) * RETRY_INTERVAL
             /\ hist.settledAt < TIMEOUT_DURATION
             /\ timeoutTimer = "cleared"

C5_Witness ==
    /\ Started /\ Negligible /\ AllNotFound
    /\ result = Wrapped(MsgNotFound)

\* C6: if 8000 ms elapse after confirmation started and the call has not
\* settled, it rejects with the timeout error, whatever the retry counter
\* holds, also when a getTransaction request never answers.
C6_TimeoutBackstop ==
    /\ Started /\ now > TIMEOUT_DURATION => calls # <<>>
    /\ calls # <<>> => hist.settledAt <= TIMEOUT_DURATION
    /\ timeoutTimer = "fired" =>
         /\ calls # <<>>
         /\ calls[1] = Rejected(MsgTimeout)
         /\ result = Wrapped(MsgTimeout)
         /\ hist.settledAt = TIMEOUT_DURATION

C6_Witness ==
    /\ timeoutTimer = "fired"
    /\ inflight # {}
    /\ retryCount = 0
    /\ result = Wrapped(MsgTimeout)

\* C7: within one call the steps are strictly sequential: sendTransaction
\* is not issued before the simulation has returned without error and the
\* transaction is signed, and no getTransaction poll is issued before
\* sendTransaction has returned a signature.
C7_StrictlySequential ==
    /\ issued["sendTransaction"] > 0 =>
         /\ issued["getLatestBlockhash"] = 1
         /\ simState = "returned" /\ ~simErr
         /\ feeState = "returned"
         /\ envelope # <<>>
         /\ signed
    /\ issued["getTransaction"] > 0 =>
         /\ issued["sendTransaction"] = 1
         /\ Started

\* C8: if the Estimator fails on a simulation that reports an error, the
\* call rejects with the Estimator's error, simulateTransaction has been
\* issued once only and sendTransaction is never issued.
EstimatorErrors ==
    {MsgNeedSol, MsgUsdc, MsgLockup, MsgSlippage, MsgSimulation}

C8_EstimatorFailureAborts ==
    simState = "threw" =>
        /\ pc = "done"
        /\ result.status = "rejected"
        /\ simErr => Len(result.value) = 1 /\ result.value[1] \in EstimatorErrors
        /\ ~simErr => result = Rejected(<<MsgTransport>>)
        /\ issued["simulateTransaction"] = 1
        /\ issued["sendTransaction"] = 0
        /\ issued["getTransaction"] = 0
        /\ envelope = <<>> /\ ~signed

C8_Witness ==
    /\ simState = "threw" /\ simErr
    /\ result = Rejected(<<MsgSimulation>>)
    /\ feeState = "returned"

\* C9: for every simulation answer whose err is not null the Estimator
\* raises an error and returns no compute-unit count, also when the answer
\* carries no log list.
C9_SimulationErrorRaised ==
    simErr => simState = "threw" /\ computeUnits = 0 /\ envelope = <<>>

\* C10: one call issues at most one sendTransaction request (and at most
\* one of each other request of the preparation), whatever fails; only the
\* getTransaction poll is repeated.
C10_SubmittedAtMostOnce ==
    /\ \A r \in Requests \ {"getTransaction"} : issued[r] <= 1
    /\ issued["getTransaction"] <= MAX_RETRIES
    /\ sendRawTransaction.maxRetries = 0

C10_Witness ==
    /\ issued["getTransaction"] >= 2
    /\ issued["sendTransaction"] = 1
    /\ result.status = "rejected"

\* The simulation has answered and its answer was kept.
SimAnswered == answered.keep /\ answered.sim # NoSim
FeeAnswered == answered.keep /\ answered.fee # NoFee
CeilDiv(a, b) == (a + b - 1) \div b

\* C11: for every consumption c a successful simulation reports (0 stands
\* for a count that is not reported), the unit limit of the budget is
\* ceil(c * 1.10) and is at least c.
C11_UnitLimitIsCeil ==
    /\ SimAnswered /\ answered.sim.err = NoErr
    /\ answered.sim.unitsConsumed # 0
    /\ envelope # <<>>
    => /\ envelope[1].units = CeilDiv(11 * answered.sim.unitsConsumed, 10)
       /\ envelope[1].units >= answered.sim.unitsConsumed

\* C12: for every list of fee samples with a non-null sample, the priority
\* fee is the median of the non-null samples (the middle one of an odd count,
\* the average of the two middle ones of an even count) clamped to
\* [50000, 500000], and is the median itself when that lies in the range.
\* The k-th smallest sample is told by counting, not by sorting.
SampleIdx(s) == {i \in 1..Len(s) : s[i] # NullFee}
KthSmallest(s, k) ==
    CHOOSE v \in {s[i] : i \in SampleIdx(s)} :
        /\ Cardinality({i \in SampleIdx(s) : s[i] < v}) < k
        /\ Cardinality({i \in SampleIdx(s) : s[i] <= v}) >= k
SampleMedian2(s) ==
    LET n == Cardinality(SampleIdx(s))
    IN  IF n % 2 = 1 THEN 2 * KthSmallest(s, (n + 1) \div 2)
        ELSE KthSmallest(s, n \div 2) + KthSmallest(s, n \div 2 + 1)

C12_FeeIsClampedMedian ==
    /\ FeeAnswered /\ answered.fee.kind = "result"
    /\ SampleIdx(answered.fee.samples) # {}
    => LET m2 == SampleMedian2(answered.fee.samples)
       IN  /\ priorityFee2 >= 2 * 50000 /\ priorityFee2 <= 2 * 500000
           /\ m2 < 2 * 50000 => priorityFee2 = 2 * 50000
           /\ m2 > 2 * 500000 => priorityFee2 = 2 * 500000
           /\ m2 >= 2 * 50000 /\ m2 <= 2 * 500000 => priorityFee2 = m2
           /\ envelope # <<>> => envelope[2].microLamports2 = priorityFee2

C12_Witness ==
    /\ FeeAnswered
    /\ Cardinality(SampleIdx(answered.fee.samples)) = 2
    /\ SampleMedian2(answered.fee.samples) = 60001 + 700000
    /\ priorityFee2 = 760001
    /\ envelope # <<>>

\* C13: for every business instruction list of length n the compiled
\* envelope has n + 2 instructions: the compute-unit-limit instruction, the
\* compute-unit-price instruction, then the n business instructions in
\* their order.
C13_BudgetInstructionsFirst ==
    envelope # <<>> =>
        /\ Len(envelope) = Len(instructions) + 2
        /\ envelope[1].kind = "SetComputeUnitLimit"
        /\ envelope[2].kind = "SetComputeUnitPrice"
        /\ \A i \in 1..Len(instructions) : envelope[i + 2] = instructions[i]

C13_Witness ==
    /\ Len(instructions) = 2
    /\ Len(envelope) = 4
    /\ envelope[3] = BusinessIx(1) /\ envelope[4] = BusinessIx(2)

\* The simulation answered with an error and a log list.
SimFailedWithLogs ==
    SimAnswered /\ answered.sim.err # NoErr /\ answered.sim.hasLogs
HasLamports(log) ==
    includes(log, SysErrLine) \/ includes(log, "insufficient lamports")
HasOtherPattern(log) ==
    \/ includes(log, "InvalidLockupAmount")
    \/ includes(log, "0x1771") \/ includes(log, "0x178c")

LamportsDecides(sim) ==
    \/ sim.err = "InsufficientFundsForRent"
    \/ /\ \A i \in 1..Len(sim.logs) : ~includes(sim.logs[i], "insufficient funds")
       /\ \E k \in 1..Len(sim.logs) :
            /\ HasLamports(sim.logs[k])
            /\ \A j \in 1..k : ~HasOtherPattern(sim.logs[j])

C15_GenericErrorCarriesLogs ==
    SimFailedWithLogs
    /\ answered.sim.err # "InsufficientFundsForRent"
    /\ Len(answered.sim.logs) > 0
    /\ (\A i \in 1..Len(answered.sim.logs) :
           ~HasLamports(answered.sim.logs[i])
           /\ ~HasOtherPattern(answered.sim.logs[i])
           /\ ~includes(answered.sim.logs[i], "insufficient funds"))
    => /\ result.status = "rejected"
       /\ result.value # <<>>
       /\ result.value[1] = MsgSimulation
       /\ Len(result.value) = 1 + Len(lastLogs(answered.sim.logs))

\* C16 as claimed: if the signers do not fill every signer slot, the call
\* rejects without having issued any RPC request.
C16_MissingSignerFailsBeforeNetwork ==
    ~signersOk => \A r \in Requests : issued[r] = 0

\* C16 as amended: if the signers do not fill every signer slot, the call
\* never issues sendTransaction or getTransaction and never resolves; when
\* the preparation succeeds it rejects at signTransaction, after the
\* blockhash, simulation and fee requests have been issued once each.
C16_MissingSignerFailsBeforeBroadcast ==
    ~signersOk =>
        /\ issued["sendTransaction"] = 0
        /\ issued["getTransaction"] = 0
        /\ ~signed
        /\ result.status # "resolved"
        /\ pc \notin {"sending", "confirming"}
        /\ envelope # <<>> /\ pc = "done" =>
             /\ result = Rejected(<<MsgMissingSignatures>>)
             /\ issued["getLatestBlockhash"] = 1
             /\ issued["simulateTransaction"] = 1
             /\ issued["getRecentPrioritizationFees"] = 1

C16_Witness ==
    /\ ~signersOk
    /\ result = Rejected(<<MsgMissingSignatures>>)
    /\ issued["simulateTransaction"] = 1
    /\ issued["sendTransaction"] = 0

\* C17: if the fee query fails (the request or its parsing throws, the
\* result is missing or malformed, or no sample is non-null) the fee is the
\* default 50000 and the preparation goes on: it rejects only if the
\* simulation does, and compiles the envelope with the default fee
\* otherwise.
FeeQueryFailed ==
    /\ FeeAnswered
    /\ \/ answered.fee.kind \in {"throws", "malformed"}
       \/ SampleIdx(answered.fee.samples) = {}

C17_FeeFailureFallsBack ==
    FeeQueryFailed =>
        /\ feeState = "returned"
        /\ priorityFee2 = 2 * 50000
        /\ result.status = "rejected" => simState = "threw"
        /\ simState = "returned" =>
             /\ envelope # <<>>
             /\ envelope[2] = BudgetIx("SetComputeUnitPrice", 0, 2 * 50000)
             /\ pc \in {"signing", "sending"}

C17_Witness ==
    /\ FeeQueryFailed
    /\ answered.fee.kind = "throws"
    /\ simState = "returned"
    /\ pc = "sending"
    /\ envelope[2].microLamports2 = 2 * 50000

\* C18: when a log line of a failed simulation has the Squads format
\* 'Error Code: <Name>. Error Number: <n>. Error Message: <text>', the
\* Estimator raises an error whose message is the name (AlreadyApproved).
C18_SquadsErrorNameRaised ==
    SimFailedWithLogs
    /\ (\E i \in 1..Len(answered.sim.logs) :
           includes(answered.sim.logs[i], "Error Code: AlreadyApproved"))
    => result = Rejected(<<"AlreadyApproved">>)

\* C20: the simulation request and the fee request are issued together,
\* before either answer is awaited: each of them is out whenever the other
\* is, so neither waits for the answer to the other.
C20_EstimatorRequestsConcurrent ==
    /\ issued["simulateTransaction"] = issued["getRecentPrioritizationFees"]
    /\ simState = "idle" <=> feeState = "idle"
    /\ simState # "idle" => issued["getRecentPrioritizationFees"] = 1
    /\ feeState # "idle" => issued["simulateTransaction"] = 1

C20_Witness ==
    /\ simState = "pending" /\ feeState = "pending"
    /\ issued["simulateTransaction"] = 1
    /\ issued["getRecentPrioritizationFees"] = 1

\* C19: the conversion of a legacy instruction is defined for every
\* well-formed one, gives (false,false) READONLY, (false,true) WRITABLE,
\* (true,false) READONLY_SIGNER, (true,true) WRITABLE_SIGNER, distinct roles
\* for distinct pairs, and keeps the program identifier, the order of the
\* accounts and the data; converting back with the role-to-flags mapping of
\* createSquadsTransactionMessage gives the original flags (and instruction).
C19_AdaptLosslessAndInvertible ==
    /\ interop.stage = "legacy" => ENABLED Adapt
    /\ interop.stage \in {"modern", "back"} =>
         LET l == interop.legacy
             m == interop.modern
         IN  /\ m.programAddress = toBase58(l.programId)
             /\ m.data = l.data
             /\ Len(m.accounts) = Len(l.keys)
             /\ \A i \in 1..Len(l.keys) :
                  /\ m.accounts[i].address = toBase58(l.keys[i].pubkey)
                  /\ ~l.keys[i].isSigner /\ ~l.keys[i].isWritable
                       => m.accounts[i].role = "READONLY"
                  /\ ~l.keys[i].isSigner /\ l.keys[i].isWritable
                       => m.accounts[i].role = "WRITABLE"
                  /\ l.keys[i].isSigner /\ ~l.keys[i].isWritable
                       => m.accounts[i].role = "READONLY_SIGNER"
                  /\ l.keys[i].isSigner /\ l.keys[i].isWritable
                       => m.accounts[i].role = "WRITABLE_SIGNER"
             /\ \A i, j \in 1..Len(l.keys) :
                  m.accounts[i].role = m.accounts[j].role
                    => /\ l.keys[i].isSigner = l.keys[j].isSigner
                       /\ l.keys[i].isWritable = l.keys[j].isWritable
    /\ interop.stage = "back" =>
         /\ Len(interop.back.keys) = Len(interop.legacy.keys)
         /\ \A i \in 1..Len(interop.legacy.keys) :
              /\ interop.back.keys[i].isSigner = interop.legacy.keys[i].isSigner
              /\ interop.back.keys[i].isWritable
                   = interop.legacy.keys[i].isWritable
         /\ interop.back = interop.legacy

C19_Witness ==
    /\ interop.stage = "back"
    /\ Len(interop.legacy.keys) = 2
    /\ interop.legacy.keys[1].isSigner /\ interop.legacy.keys[1].isWritable
    /\ ~interop.legacy.keys[2].isSigner /\ interop.legacy.keys[2].isWritable
    /\ interop.modern.accounts[1].role = "WRITABLE_SIGNER"
    /\ interop.back = interop.legacy

\* C21: concurrent invocations share no mutable state: the retry count of
\* each is the number of its own failed polls, each resolves only on a poll
\* of its own that found the transaction, and no step of one invocation
\* (poll answer, retry timer, timeout, settlement) changes the retry count,
\* settled flag, timers, requests or outcome of the other.
ownState ==
    <<retryCount, isResolved, timeoutTimer, retryTimers, inflight, calls,
      result>>

C21_NoSharedState ==
    /\ [](/\ hist.foundErr = "" /\ ~hist.foundOk => retryCount = hist.answers
          /\ peer.retryCount = peer.failed
          /\ result.status = "resolved" => hist.foundOk
          /\ peer.outcome.status = "resolved" => peer.foundOk)
    /\ [][peer' # peer => ownState' = ownState]_vars
    /\ [][ownState' # ownState => peer' = peer]_vars

C21_Witness ==
    /\ result = Resolved(signature)
    /\ retryCount >= 1
    /\ peer.outcome = Rejected(MsgTimeout)
    /\ peer.retryCount > retryCount

\* C24: the proposal-create transaction is submitted (its call is made at
\* all) only after the signAndSendTransaction call of the vault-transaction
\* create has resolved, a poll of it having found the transaction; if that
\* call rejects, the proposal-create call is never made.
C24_ProposalAfterVaultConfirmed ==
    /\ instructions = <<ProposalCreateIx>> =>
         /\ propose.stage \in {"proposal", "done", "failed"}
         /\ propose.vault = Resolved(signature)
         /\ propose.vaultFound
    /\ propose.stage = "vault" =>
         instructions = <<VaultCreateIx>> /\ propose.vault = Pending
    /\ propose.vault.status = "rejected" =>
         /\ propose.stage = "failed"
         /\ instructions = <<VaultCreateIx>>
         /\ result = propose.vault

C24_Witness ==
    /\ propose.stage = "done"
    /\ instructions = <<ProposalCreateIx>>
    /\ issued["sendTransaction"] = 1
    /\ propose.vaultFound
    /\ result = Resolved(signature)

\* C22: one confirmSignature invocation issues at most 7 getTransaction
\* requests: every failed poll, "not found" or RPC error, counts against the
\* one retry counter, and once the counter is 7 no poll is scheduled.
C22_AtMostSevenPolls ==
    /\ issued["getTransaction"] <= 7
    /\ retryCount <= MAX_RETRIES
    /\ hist.foundErr = "" /\ ~hist.foundOk => retryCount = hist.answers
    /\ retryCount >= MAX_RETRIES => retryTimers = {} /\ inflight = {}

C22_Witness ==
    /\ issued["getTransaction"] = 7
    /\ retryCount = 7
    /\ ~hist.noRpcError
    /\ calls = <<Rejected(MsgNotFound)>>

\* C23: every confirmSignature invocation eventually settles, whatever the
\* RPC answers to each poll and also if it never answers, provided timers
\* that are due fire; it stays settled.
C23_EventuallySettles ==
    /\ (pc = "confirming") ~> (result.status # "pending" /\ calls # <<>>)
    /\ (pc = "confirming") ~> [](pc = "done" /\ isResolved)

C23_Witness ==
    /\ pc = "done"
    /\ timeoutTimer = "fired"
    /\ inflight # {}
    /\ retryCount >= 1
    /\ result = Wrapped(MsgTimeout)

\* C25: the call resolves with a signature only if a getTransaction poll
\* found the transaction without on-chain error, and that poll settled it:
\* never after the overall timeout fired, after the retry ceiling was
\* exhausted or after a poll that found an on-chain error; a rejection is
\* never turned into a resolution.
C25_ResolvesOnlyOnFoundOk ==
    /\ [](result.status = "resolved" =>
            /\ result = Resolved(signature)
            /\ hist.foundOk
            /\ calls # <<>>
            /\ timeoutTimer = "cleared"
            /\ retryCount < MAX_RETRIES
            /\ hist.foundErr = "")
    /\ [][result.status = "rejected" => result' = result]_vars

C25_Witness ==
    /\ result = Resolved(signature)
    /\ retryCount > 0
    /\ ~hist.noRpcError

\* C26: after confirmSignature has settled no getTransaction request is
\* issued, also when a retry timer fires after the settlement or was
\* scheduled by a poll answer that came after it.
C26_NoPollAfterSettle ==
    /\ [](calls # <<>> => inflight \subseteq 0..hist.settledAt)
    /\ [][calls # <<>> =>
            /\ issued'["getTransaction"] = issued["getTransaction"]
            /\ inflight' \subseteq inflight]_vars

C26_Witness ==
    /\ calls = <<Rejected(MsgTimeout)>>
    /\ hist.lateTimers >= 1
    /\ retryCount >= 1
    /\ ~hist.instant

\* C27: at most one getTransaction request is outstanding at any time: a
\* retry timer is set only by the answer to the outstanding poll, for 1000 ms
\* later, and a retry poll is issued only by such a timer that is due.
C27_OnePollOutstanding ==
    /\ [](/\ Cardinality(inflight) <= 1
          /\ Cardinality(retryTimers) <= 1
          /\ inflight # {} => retryTimers = {})
    /\ [][retryTimers' \ retryTimers # {} =>
            /\ inflight # {} /\ inflight' = {}
            /\ retryTimers' = {now + RETRY_INTERVAL}
            /\ hist'.answers = hist.answers + 1]_vars
    /\ [][issued'["getTransaction"] # issued["getTransaction"]
          /\ pc # "sending" =>
            /\ inflight = {}
            /\ \E d \in retryTimers :
                 d <= now /\ retryTimers' = retryTimers \ {d}]_vars

C27_Witness ==
    /\ issued["getTransaction"] >= 3
    /\ inflight # {}
    /\ ~hist.noRpcError
    /\ ~hist.instant

\* C28: the error of a failed simulation follows one precedence: an
\* InsufficientFundsForRent err or an empty log list gives the SOL-fee error;
\* otherwise a line with 'insufficient funds' anywhere gives the
\* token-balance error; otherwise the first line that matches
\* InvalidLockupAmount, a slippage code or the insufficient-lamports pattern
\* decides; otherwise the generic error; exactly one error is raised.
FirstMatch(logs) ==
    CHOOSE k \in 1..Len(logs) :
        /\ HasOtherPattern(logs[k]) \/ HasLamports(logs[k])
        /\ \A j \in 1..(k - 1) : ~HasOtherPattern(logs[j]) /\ ~HasLamports(logs[j])
Precedence(sim) ==
    IF sim.err = "InsufficientFundsForRent" \/ Len(sim.logs) = 0
    THEN MsgNeedSol
    ELSE IF \E i \in 1..Len(sim.logs) : includes(sim.logs[i], "insufficient funds")
    THEN MsgUsdc
    ELSE IF \E k \in 1..Len(sim.logs) :
              HasOtherPattern(sim.logs[k]) \/ HasLamports(sim.logs[k])
    THEN LET log == sim.logs[FirstMatch(sim.logs)]
         IN  IF includes(log, "InvalidLockupAmount") THEN MsgLockup
             ELSE IF includes(log, "0x1771") \/ includes(log, "0x178c")
             THEN MsgSlippage
             ELSE MsgNeedSol
    ELSE MsgSimulation

C28_ErrorPrecedence ==
    SimAnswered /\ answered.sim.err # NoErr =>
        /\ simState = "threw"
        /\ result = Rejected(<<Precedence(answered.sim)>>)

\* C29: the priority fee placed in the compute-unit-price instruction is a
\* whole number of microLamports for every list of fee samples.
C29_FeeIsWholeNumber ==
    envelope # <<>> => envelope[2].microLamports2 % 2 = 0

\* C30: the compute-unit limit of the envelope never exceeds 1,400,000, also
\* for a simulation result that reports zero or no consumed units.
C30_LimitWithinPlaceholder ==
    envelope # <<>> => envelope[1].units <= 1400000

====
